---- MODULE Spec2Model ----
(***************************************************************************)
(* Model of pika/reconnection_strategies.py: the ReconnectionStrategy     *)
(* interface, NullReconnectionStrategy and SimpleReconnectionStrategy,    *)
(* the class-level _active switch, and the one-shot timers the Simple     *)
(* variant requests from its connection.                                  *)
(*                                                                         *)
(* Delays are Python floats.  They are modelled as exact rationals <<n,d>>*)
(* in lowest terms; for the dyadic configurations and draws used here the *)
(* IEEE-754 double results are exact, so the two agree.                   *)
(*                                                                         *)
(* Spec           whole calls, in any order, on the Base, Null and two    *)
(*                Simple instances                                        *)
(* SpecOneConn    one connection owning a Simple instance with the        *)
(*                default configuration, with the history of its closures *)
(* SpecUpperBound SpecOneConn with the draw 1 added to random()'s range   *)
(* SpecThreads    on_connection_closed statement by statement, against    *)
(*                set_active on another thread                            *)
(***************************************************************************)
EXTENDS Integers, Sequences, FiniteSets, Bags, TLC

VARIABLES
    active,      \* ReconnectionStrategy._active (class attribute, shared)
    strategies,  \* per SimpleReconnectionStrategy instance: config and state
    timers,      \* bag of pending one-shot timers requested by add_timeout
    last,        \* the most recent call: operation, receiver, inputs, pre-state
    history,     \* per Simple instance: what its closures did so far
    call         \* an on_connection_closed call in progress on another thread

vars == <<active, strategies, timers, last, history, call>>

----------------------------------------------------------------------------
(* Bounds of the model *)

MaxAttempts == 1     \* cap on attempts_since_last_success (unbounded int)
MaxTimers == 1       \* cap on the number of pending timers
MaxClosures == 6     \* cap on the closures counted since the last open
DrawDen == 2         \* random() draws are k/DrawDen, k in 0..DrawDen-1

----------------------------------------------------------------------------
(* Float arithmetic, as exact rationals in lowest terms *)

RECURSIVE GCD(_, _)
GCD(a, b) == IF b = 0 THEN a ELSE GCD(b, a % b)

Rat(n, d) == LET g == GCD(n, d) IN <<n \div g, d \div g>>

RMul(x, y) == Rat(x[1] * y[1], x[2] * y[2])

RAdd(x, y) == Rat(x[1] * y[2] + y[1] * x[2], x[2] * y[2])

RLeq(x, y) == x[1] * y[2] <= y[1] * x[2]

RLt(x, y) == x[1] * y[2] < y[1] * x[2]

\* Python's min(a, b): b only when b < a
RMin(a, b) == IF RLt(b, a) THEN b ELSE a

One == <<1, 1>>

\* random(): a float in [0, 1)
Draws == { Rat(k, DrawDen) : k \in 0 .. (DrawDen - 1) }

NoDraw == <<-1, 1>>

----------------------------------------------------------------------------
(* Instances, classes and configurations *)

BaseInsts == {"b"}            \* instances of ReconnectionStrategy itself
NullInsts == {"n"}            \* instances of NullReconnectionStrategy
SimpleInsts == {"s1", "s2"}   \* instances of SimpleReconnectionStrategy
Insts == BaseInsts \cup NullInsts \cup SimpleInsts

Conns == {"cb", "cn", "c1", "c2"}   \* connection objects

\* each strategy instance is installed on one connection, which passes
\* itself as conn to every hook it calls
ConnOf(self) ==
    IF self = "s1" THEN "c1"
    ELSE IF self = "s2" THEN "c2"
    ELSE IF self \in NullInsts THEN "cn" ELSE "cb"

KindOf(self) ==
    IF self \in SimpleInsts THEN "Simple"
    ELSE IF self \in NullInsts THEN "Null" ELSE "Base"

\* class attribute can_reconnect
can_reconnect(kind) == IF kind = "Simple" THEN TRUE ELSE FALSE

\* __init__ defaults: initial_retry_delay=1.0, multiplier=2.0,
\* max_delay=30.0, jitter=0.5
DefaultConfig ==
    [initial_retry_delay |-> <<1, 1>>, multiplier |-> <<2, 1>>,
     max_delay |-> <<30, 1>>, jitter |-> <<1, 2>>]

\* constructor arguments of the two Simple instances of the model
SmallConfig ==
    [initial_retry_delay |-> <<2, 1>>, multiplier |-> <<3, 2>>,
     max_delay |-> <<3, 1>>, jitter |-> <<1, 1>>]

TinyConfig ==
    [initial_retry_delay |-> <<1, 1>>, multiplier |-> <<2, 1>>,
     max_delay |-> <<4, 1>>, jitter |-> <<1, 2>>]

ArgsOf(self) == IF self = "s1" THEN TinyConfig ELSE SmallConfig

\* the preconditions the data model states for a configuration
ValidConfig(cfg) ==
    /\ RLt(<<0, 1>>, cfg.initial_retry_delay)
    /\ RLt(One, cfg.multiplier)
    /\ RLeq(cfg.initial_retry_delay, cfg.max_delay)
    /\ RLeq(<<0, 1>>, cfg.jitter)

\* a SimpleReconnectionStrategy that has not been constructed yet
Absent ==
    [exists |-> FALSE, cfg |-> DefaultConfig,
     current_delay |-> <<0, 1>>, attempts_since_last_success |-> 0]

Exists(self) == IF self \in SimpleInsts THEN strategies[self].exists ELSE TRUE

StateOf(self) == IF self \in SimpleInsts THEN strategies[self] ELSE Absent

NoDelay == <<0, 1>>

\* nothing observed yet: no closure scheduled or suppressed
NoHistory ==
    [closures |-> 0, scheduled |-> NoDelay, previous |-> NoDelay,
     suppressed |-> FALSE]

\* no on_connection_closed call is in progress
Idle ==
    [pc |-> "idle", self |-> "-", conn |-> "-", pre |-> Absent,
     draw |-> NoDraw, t |-> NoDelay]

----------------------------------------------------------------------------
(* ReconnectionStrategy *)

is_active == active

\* variant of _reset that forgets to restore the delay
_reset_counter_only(s) ==
    [s EXCEPT !.attempts_since_last_success = 0]

\* _reset: current_delay = initial_retry_delay; attempts = 0
_reset(s) ==
    [s EXCEPT !.current_delay = s.cfg.initial_retry_delay,
              !.attempts_since_last_success = 0]

\* variant of new_delay without the cap
new_delay_uncapped(s, draw) ==
    [s EXCEPT !.current_delay =
        RMul(RMul(s.current_delay, RAdd(RMul(draw, s.cfg.jitter), One)),
             s.cfg.multiplier)]

\* variant of new_delay that leaves out the multiplier
new_delay_no_multiplier(s, draw) ==
    [s EXCEPT !.current_delay =
        RMin(s.cfg.max_delay,
             RMul(s.current_delay, RAdd(RMul(draw, s.cfg.jitter), One)))]

\* variant of new_delay with the parentheses of the jitter term left out:
\* current_delay * random() * jitter + 1 * multiplier
new_delay_missing_parens(s, draw) ==
    [s EXCEPT !.current_delay =
        RMin(s.cfg.max_delay,
             RAdd(RMul(RMul(s.current_delay, draw), s.cfg.jitter),
                  s.cfg.multiplier))]

\* variant of new_delay whose jitter shortens the delay:
\* current_delay * (1 - (random() * jitter)) * multiplier
new_delay_jitter_down(s, draw) ==
    LET j == RMul(draw, s.cfg.jitter)
        t == RMul(RMul(s.current_delay, RAdd(One, <<0 - j[1], j[2]>>)),
                  s.cfg.multiplier)
    IN [s EXCEPT !.current_delay = RMin(s.cfg.max_delay, t)]

\* variant of new_delay that backs off linearly:
\* current_delay + ((random() * jitter) + 1) * multiplier
new_delay_additive(s, draw) ==
    [s EXCEPT !.current_delay =
        RMin(s.cfg.max_delay,
             RAdd(s.current_delay,
                  RMul(RAdd(RMul(draw, s.cfg.jitter), One),
                       s.cfg.multiplier)))]

\* new_delay: t = current_delay * ((random() * jitter) + 1) * multiplier
\*            current_delay = min(max_delay, t); the new state is returned,
\*            its current_delay is the method's return value
new_delay(s, draw) ==
    LET t == RMul(RMul(s.current_delay, RAdd(RMul(draw, s.cfg.jitter), One)),
                  s.cfg.multiplier)
    IN [s EXCEPT !.current_delay = RMin(s.cfg.max_delay, t)]

\* conn._reconnect, a bound method of the connection
ReconnectOf(conn) == [obj |-> conn, name |-> "_reconnect"]

\* conn.add_timeout(delay, callback): one more pending one-shot timer
add_timeout(tm, conn, delay, callback) ==
    tm (+) SetToBag({[conn |-> conn, delay |-> delay, callback |-> callback]})

Called(op, self, draw, value) ==
    last' = [op |-> op, inst |-> self, draw |-> draw, value |-> value,
             pre |-> StateOf(self)]

----------------------------------------------------------------------------
(* Initial state: the module is imported, the Base and Null instances     *)
(* exist (their constructors do nothing), no Simple instance yet.         *)

Init ==
    /\ active = TRUE
    /\ strategies = [i \in SimpleInsts |-> Absent]
    /\ timers = EmptyBag
    /\ last = [op |-> "import", inst |-> "-", draw |-> NoDraw, value |-> TRUE,
               pre |-> Absent]
    /\ history = [i \in SimpleInsts |-> NoHistory]
    /\ call = Idle

----------------------------------------------------------------------------
(* Operations.  Every hook receives the connection; only                  *)
(* on_connection_closed uses it, so it is a parameter of that action      *)
(* alone.                                                                 *)

\* variant of __init__ that also switches the shared flag on
Construct_enables(self, cfg) ==
    /\ self \in SimpleInsts
    /\ ~strategies[self].exists
    /\ strategies' = [strategies EXCEPT ![self] =
           _reset([exists |-> TRUE, cfg |-> cfg,
                   current_delay |-> <<0, 1>>,
                   attempts_since_last_success |-> 0])]
    /\ active' = TRUE
    /\ Called("__init__", self, NoDraw, TRUE)
    /\ UNCHANGED timers

\* SimpleReconnectionStrategy.__init__
Construct(self, cfg) ==
    /\ self \in SimpleInsts
    /\ ~strategies[self].exists
    /\ strategies' = [strategies EXCEPT ![self] =
           _reset([exists |-> TRUE, cfg |-> cfg,
                   current_delay |-> <<0, 1>>,
                   attempts_since_last_success |-> 0])]
    /\ Called("__init__", self, NoDraw, TRUE)
    /\ UNCHANGED <<active, timers>>

\* variant of set_active that assigns an instance attribute: the class
\* attribute read by is_active keeps its value
set_active_on_instance(self, value) ==
    /\ Exists(self)
    /\ Called("set_active", self, NoDraw, value)
    /\ UNCHANGED <<active, strategies, timers>>

\* variant of set_active that ignores its argument
set_active_ignores_value(self, value) ==
    /\ Exists(self)
    /\ active' = TRUE
    /\ Called("set_active", self, NoDraw, value)
    /\ UNCHANGED <<strategies, timers>>

\* variant of set_active that makes up for suppressed closures: enabling
\* schedules a reconnect on the caller's connection
set_active_reschedules(self, value) ==
    /\ Exists(self)
    /\ active' = value
    /\ timers' = IF value /\ BagCardinality(timers) < MaxTimers
                 THEN add_timeout(timers, ConnOf(self), StateOf(self).current_delay,
                                  ReconnectOf(ConnOf(self)))
                 ELSE timers
    /\ Called("set_active", self, NoDraw, value)
    /\ UNCHANGED strategies

set_active(self, value) ==
    /\ Exists(self)
    /\ active' = value
    /\ Called("set_active", self, NoDraw, value)
    /\ UNCHANGED <<strategies, timers>>

\* variant of the interface's hooks whose on_connection_closed schedules
Base_hook_schedules(op, self) ==
    /\ Called(op, self, NoDraw, TRUE)
    /\ timers' = IF op = "on_connection_closed"
                    /\ BagCardinality(timers) < MaxTimers
                 THEN add_timeout(timers, ConnOf(self), <<0, 1>>,
                                  ReconnectOf(ConnOf(self)))
                 ELSE timers
    /\ UNCHANGED <<active, strategies>>

\* the interface's hooks: empty bodies
Base_hook(op, self) ==
    /\ Called(op, self, NoDraw, TRUE)
    /\ UNCHANGED <<active, strategies, timers>>

Simple_on_connect_attempt(self) ==
    /\ strategies[self].attempts_since_last_success < MaxAttempts
    /\ strategies' = [strategies EXCEPT
           ![self].attempts_since_last_success = @ + 1]
    /\ Called("on_connect_attempt", self, NoDraw, TRUE)
    /\ UNCHANGED <<active, timers>>

\* variant of on_connect_attempt_failure that counts the failure
Simple_on_connect_attempt_failure_counts(self) ==
    /\ strategies[self].attempts_since_last_success < MaxAttempts
    /\ strategies' = [strategies EXCEPT
           ![self].attempts_since_last_success = @ + 1]
    /\ Called("on_connect_attempt_failure", self, NoDraw, TRUE)
    /\ UNCHANGED <<active, timers>>

\* variant of on_connect_attempt_failure that schedules the retry itself
Simple_on_connect_attempt_failure_schedules(self) ==
    /\ BagCardinality(timers) < MaxTimers
    /\ timers' = add_timeout(timers, ConnOf(self),
                             strategies[self].current_delay,
                             ReconnectOf(ConnOf(self)))
    /\ Called("on_connect_attempt_failure", self, NoDraw, TRUE)
    /\ UNCHANGED <<active, strategies>>

\* only logs a warning
Simple_on_connect_attempt_failure(self) ==
    /\ Called("on_connect_attempt_failure", self, NoDraw, TRUE)
    /\ UNCHANGED <<active, strategies, timers>>

\* variant of on_connection_open that resets the counter only
Simple_on_connection_open_keeps_delay(self) ==
    /\ strategies' = [strategies EXCEPT
           ![self].attempts_since_last_success = 0]
    /\ Called("on_connection_open", self, NoDraw, TRUE)
    /\ UNCHANGED <<active, timers>>

\* variant of on_connection_open whose state lives on the class: every
\* constructed instance is reset
Simple_on_connection_open_all(self) ==
    /\ strategies' = [i \in SimpleInsts |->
           IF strategies[i].exists THEN _reset(strategies[i])
           ELSE strategies[i]]
    /\ Called("on_connection_open", self, NoDraw, TRUE)
    /\ UNCHANGED <<active, timers>>

Simple_on_connection_open(self) ==
    /\ strategies' = [strategies EXCEPT ![self] = _reset(@)]
    /\ Called("on_connection_open", self, NoDraw, TRUE)
    /\ UNCHANGED <<active, timers>>

\* variant of on_connection_closed without the is_active test
Simple_on_connection_closed_unguarded(self, conn, draw) ==
    LET s == new_delay(strategies[self], draw)
        t == s.current_delay
    IN /\ BagCardinality(timers) < MaxTimers
       /\ strategies' = [strategies EXCEPT ![self] = s]
       /\ timers' = add_timeout(timers, conn, t, ReconnectOf(conn))
       /\ Called("on_connection_closed", self, draw, TRUE)
       /\ UNCHANGED active

\* variant of on_connection_closed that schedules with the delay read
\* before new_delay
Simple_on_connection_closed_stale_delay(self, conn, draw) ==
    IF ~is_active
    THEN /\ Called("on_connection_closed", self, NoDraw, TRUE)
         /\ UNCHANGED <<active, strategies, timers>>
    ELSE LET s == new_delay(strategies[self], draw)
             t == strategies[self].current_delay
         IN /\ BagCardinality(timers) < MaxTimers
            /\ strategies' = [strategies EXCEPT ![self] = s]
            /\ timers' = add_timeout(timers, conn, t, ReconnectOf(conn))
            /\ Called("on_connection_closed", self, draw, TRUE)
            /\ UNCHANGED active

\* variant of on_connection_closed that resets the state when switched off
Simple_on_connection_closed_resets(self, conn, draw) ==
    IF ~is_active
    THEN /\ strategies' = [strategies EXCEPT ![self] = _reset(@)]
         /\ Called("on_connection_closed", self, NoDraw, TRUE)
         /\ UNCHANGED <<active, timers>>
    ELSE LET s == new_delay(strategies[self], draw)
             t == s.current_delay
         IN /\ BagCardinality(timers) < MaxTimers
            /\ strategies' = [strategies EXCEPT ![self] = s]
            /\ timers' = add_timeout(timers, conn, t, ReconnectOf(conn))
            /\ Called("on_connection_closed", self, draw, TRUE)
            /\ UNCHANGED active

Simple_on_connection_closed(self, conn, draw) ==
    IF ~is_active
    THEN /\ Called("on_connection_closed", self, NoDraw, TRUE)
         /\ UNCHANGED <<active, strategies, timers>>
    ELSE LET s == new_delay(strategies[self], draw)
             t == s.current_delay
         IN /\ BagCardinality(timers) < MaxTimers
            /\ strategies' = [strategies EXCEPT ![self] = s]
            /\ timers' = add_timeout(timers, conn, t, ReconnectOf(conn))
            /\ Called("on_connection_closed", self, draw, TRUE)
            /\ UNCHANGED active

on_connect_attempt(self) ==
    /\ Exists(self)
    /\ IF KindOf(self) = "Simple"
       THEN Simple_on_connect_attempt(self)
       ELSE Base_hook("on_connect_attempt", self)

on_connect_attempt_failure(self) ==
    /\ Exists(self)
    /\ IF KindOf(self) = "Simple"
       THEN Simple_on_connect_attempt_failure(self)
       ELSE Base_hook("on_connect_attempt_failure", self)

on_transport_connected(self) ==
    /\ Exists(self)
    /\ Base_hook("on_transport_connected", self)

on_transport_disconnected(self) ==
    /\ Exists(self)
    /\ Base_hook("on_transport_disconnected", self)

on_connection_open(self) ==
    /\ Exists(self)
    /\ IF KindOf(self) = "Simple"
       THEN Simple_on_connection_open(self)
       ELSE Base_hook("on_connection_open", self)

on_connection_closed(self, conn, draw) ==
    /\ Exists(self)
    /\ IF KindOf(self) = "Simple"
       THEN Simple_on_connection_closed(self, conn, draw)
       ELSE Base_hook("on_connection_closed", self)

\* the event loop fires a pending one-shot timer and forgets it
TimerFired(tmr) ==
    /\ BagIn(tmr, timers)
    /\ timers' = timers (-) SetToBag({tmr})
    /\ Called("timer_fired", "-", NoDraw, TRUE)
    /\ UNCHANGED <<active, strategies>>

\* Spec runs whole calls on one thread and keeps no history
Untracked(A) == A /\ UNCHANGED <<history, call>>

Next ==
    \/ \E self \in SimpleInsts : Untracked(Construct(self, ArgsOf(self)))
    \/ \E self \in Insts, value \in BOOLEAN :
           Untracked(set_active(self, value))
    \/ \E self \in Insts : Untracked(on_connect_attempt(self))
    \/ \E self \in Insts : Untracked(on_connect_attempt_failure(self))
    \/ \E self \in Insts : Untracked(on_transport_connected(self))
    \/ \E self \in Insts : Untracked(on_transport_disconnected(self))
    \/ \E self \in Insts : Untracked(on_connection_open(self))
    \/ \E self \in Insts, draw \in Draws :
           Untracked(on_connection_closed(self, ConnOf(self), draw))
    \/ \E tmr \in BagToSet(timers) : Untracked(TimerFired(tmr))

Spec == Init /\ [][Next]_vars

----------------------------------------------------------------------------
(* One connection with the default configuration.  The connection c1      *)
(* owns s1, constructed with the __init__ defaults, and reports its next  *)
(* lifecycle event only after the reconnect timer it was asked for has    *)
(* fired, so at most one timer is pending.  The history of s1's closures  *)
(* is kept: how many were scheduled since the last open or construction,  *)
(* the delays of the latest add_timeout and of the one before it, and     *)
(* whether the latest closure was suppressed.                             *)

OneInsts == {"b", "n", "s1"}

\* the history after the step just taken, read off what the step did
Observe ==
    LET i == last'.inst
        added == timers' (-) timers
    IN IF i \notin SimpleInsts
       THEN history
       ELSE IF last'.op = "on_connection_closed"
       THEN IF added # EmptyBag
            THEN [history EXCEPT ![i] =
                    [closures |-> @.closures + 1,
                     scheduled |-> (CHOOSE t \in BagToSet(added) : TRUE).delay,
                     previous |-> @.scheduled,
                     suppressed |-> FALSE]]
            ELSE [history EXCEPT ![i].suppressed = TRUE]
       ELSE IF last'.op \in {"on_connection_open", "__init__"}
       THEN [history EXCEPT ![i].closures = 0]
       ELSE history

Tracked(A) ==
    /\ timers = EmptyBag
    /\ A
    /\ history' = Observe
    /\ UNCHANGED call

\* the steps of the connection, with random() drawing from D
OneConnStep(D) ==
    \/ Tracked(Construct("s1", DefaultConfig))
    \/ \E self \in OneInsts, value \in BOOLEAN :
           Tracked(set_active(self, value))
    \/ Tracked(on_connect_attempt("s1"))
    \/ Tracked(on_connect_attempt_failure("s1"))
    \/ Tracked(on_connection_open("s1"))
    \/ \E draw \in D :
           /\ history["s1"].closures < MaxClosures
           /\ Tracked(on_connection_closed("s1", ConnOf("s1"), draw))
    \/ \E tmr \in BagToSet(timers) : Untracked(TimerFired(tmr))

NextOneConn == OneConnStep(Draws)

SpecOneConn == Init /\ [][NextOneConn]_vars

\* the same connection when the draw is allowed to be the upper bound 1,
\* which random() itself never returns
ClosedDraws == Draws \cup {One}

NextUpperBound == OneConnStep(ClosedDraws)

SpecUpperBound == Init /\ [][NextUpperBound]_vars

----------------------------------------------------------------------------
(* Two threads without synchronisation.  One thread runs                  *)
(* on_connection_closed statement by statement: the is_active test (lines *)
(* 86-87), t = self.new_delay() (line 88), and the log and                *)
(* conn.add_timeout(t, conn._reconnect) (lines 89-92); call holds its     *)
(* position and its local t.  The other thread runs set_active (one       *)
(* assignment), __init__, on_connection_open and the event loop.          *)

\* variant of the is_active test that lets every call through
Closed_check_unguarded(self, conn) ==
    /\ self \in SimpleInsts
    /\ strategies[self].exists
    /\ call.pc = "idle"
    /\ call' = [pc |-> "new_delay", self |-> self, conn |-> conn,
                pre |-> strategies[self], draw |-> NoDraw, t |-> NoDelay]
    /\ UNCHANGED <<active, strategies, timers, last, history>>

\* lines 86-87: if not self.is_active: return
Closed_check(self, conn) ==
    /\ self \in SimpleInsts
    /\ strategies[self].exists
    /\ call.pc = "idle"
    /\ IF ~is_active
       THEN /\ Called("on_connection_closed", self, NoDraw, TRUE)
            /\ UNCHANGED <<active, strategies, timers, history, call>>
       ELSE /\ call' = [pc |-> "new_delay", self |-> self, conn |-> conn,
                        pre |-> strategies[self], draw |-> NoDraw,
                        t |-> NoDelay]
            /\ UNCHANGED <<active, strategies, timers, last, history>>

\* line 88: t = self.new_delay()
Closed_new_delay(draw) ==
    /\ call.pc = "new_delay"
    /\ LET s == new_delay(strategies[call.self], draw)
       IN /\ strategies' = [strategies EXCEPT ![call.self] = s]
          /\ call' = [call EXCEPT !.pc = "add_timeout", !.draw = draw,
                                  !.t = s.current_delay]
    /\ UNCHANGED <<active, timers, last, history>>

\* lines 89-92: info(...); conn.add_timeout(t, conn._reconnect)
Closed_add_timeout ==
    /\ call.pc = "add_timeout"
    /\ BagCardinality(timers) < MaxTimers
    /\ timers' = add_timeout(timers, call.conn, call.t, ReconnectOf(call.conn))
    /\ last' = [op |-> "on_connection_closed", inst |-> call.self,
                draw |-> call.draw, value |-> TRUE, pre |-> call.pre]
    /\ call' = Idle
    /\ UNCHANGED <<active, strategies, history>>

NextThreads ==
    \/ \E self \in SimpleInsts : Untracked(Construct(self, ArgsOf(self)))
    \/ \E self \in Insts, value \in BOOLEAN :
           Untracked(set_active(self, value))
    \/ \E self \in SimpleInsts : Untracked(on_connection_open(self))
    \/ \E self \in SimpleInsts : Closed_check(self, ConnOf(self))
    \/ \E draw \in Draws : Closed_new_delay(draw)
    \/ Closed_add_timeout
    \/ \E tmr \in BagToSet(timers) : Untracked(TimerFired(tmr))

SpecThreads == Init /\ [][NextThreads]_vars

----------------------------------------------------------------------------
(* Shorthands used by the properties *)

Delay(i) == strategies[i].current_delay

Attempts(i) == strategies[i].attempts_since_last_success

Cfg(i) == strategies[i].cfg

\* the step just taken was a call of op on instance i (read in the new state)
JustCalled(op, i) == last.op = op /\ last.inst = i

----------------------------------------------------------------------------
\* C1: for a valid configuration (initial_retry_delay > 0, multiplier > 1,
\* max_delay >= initial_retry_delay, jitter >= 0), in every reachable state
\* initial_retry_delay <= current_delay <= max_delay for every constructed
\* SimpleReconnectionStrategy.
C1_DelayWithinBounds ==
    \A i \in SimpleInsts :
        (strategies[i].exists /\ ValidConfig(Cfg(i)))
            => /\ RLeq(Cfg(i).initial_retry_delay, Delay(i))
               /\ RLeq(Delay(i), Cfg(i).max_delay)

\* an active closure whose uncapped product exceeded max_delay
C1_Witness ==
    \E i \in SimpleInsts :
        /\ JustCalled("on_connection_closed", i)
        /\ last.draw \in Draws
        /\ ValidConfig(Cfg(i))
        /\ Delay(i) = Cfg(i).max_delay
        /\ RLt(Cfg(i).initial_retry_delay, last.pre.current_delay)
        /\ RLt(Cfg(i).max_delay,
               RMul(last.pre.current_delay, Cfg(i).multiplier))

C3_OpenResets ==
    \A i \in SimpleInsts :
        JustCalled("on_connection_open", i)
            => /\ Delay(i) = Cfg(i).initial_retry_delay
               /\ Attempts(i) = 0

\* an open with the flag false that found a raised delay and a counter > 0
C3_Witness ==
    \E i \in SimpleInsts :
        /\ JustCalled("on_connection_open", i)
        /\ ~active
        /\ last.pre.current_delay = Cfg(i).max_delay
        /\ last.pre.attempts_since_last_success > 0
        /\ RLt(Cfg(i).initial_retry_delay, Cfg(i).max_delay)

\* C4: with the flag false, on_connection_closed on a
\* SimpleReconnectionStrategy requests no timer, draws no random number and
\* leaves current_delay and attempts_since_last_success as they were.
C4_InactiveClosedIsNoOp ==
    [][\A i \in SimpleInsts :
         (JustCalled("on_connection_closed", i)' /\ ~active)
           => /\ timers' = timers
              /\ strategies' = strategies
              /\ last'.draw = NoDraw]_vars

\* a suppressed closure of an instance that had backed off and counted
C4_Witness ==
    \E i \in SimpleInsts :
        /\ JustCalled("on_connection_closed", i)
        /\ ~active
        /\ last.draw = NoDraw
        /\ RLt(Cfg(i).initial_retry_delay, Delay(i))
        /\ Attempts(i) > 0
        /\ timers = EmptyBag

\* C5: set_active(v) on any instance of any class sets the one shared flag
\* to v; the flag then keeps that value until the next set_active call; and
\* a closure of any SimpleReconnectionStrategy requests a timer exactly when
\* the flag is true.  Hence disabling through one instance suppresses
\* scheduling in every other instance until some instance re-enables.
C5_SharedSwitch ==
    [][/\ \A j \in Insts :
            JustCalled("set_active", j)' => active' = last'.value
       /\ last'.op # "set_active" => active' = active
       /\ \A i \in SimpleInsts :
            JustCalled("on_connection_closed", i)'
              => IF active
                 THEN BagCardinality(timers') = BagCardinality(timers) + 1
                 ELSE timers' = timers]_vars

\* both Simple instances exist, the flag is false, a closure of the second
\* one has just been suppressed
C5_Witness ==
    /\ JustCalled("on_connection_closed", "s2")
    /\ ~active
    /\ strategies["s1"].exists
    /\ timers = EmptyBag
    /\ last.draw = NoDraw

\* C6: an on_connection_closed call on a SimpleReconnectionStrategy made
\* while the flag is true adds exactly one timer, on the connection it was
\* given, with the delay current_delay has after the call and that
\* connection's _reconnect as callback.
C6_OneTimerWithNewDelay ==
    [][\A i \in SimpleInsts :
         (JustCalled("on_connection_closed", i)' /\ active)
           => \E c \in Conns :
                timers' = timers (+) SetToBag({
                    [conn |-> c, delay |-> Delay(i)',
                     callback |-> [obj |-> c, name |-> "_reconnect"]]})]_vars

\* a closure on connection c2 that changed the delay and scheduled with it
C6_Witness ==
    \E i \in SimpleInsts :
        /\ JustCalled("on_connection_closed", i)
        /\ last.draw \in Draws
        /\ Delay(i) # last.pre.current_delay
        /\ BagIn([conn |-> "c2", delay |-> Delay(i),
                  callback |-> [obj |-> "c2", name |-> "_reconnect"]], timers)

\* C7: no call on a NullReconnectionStrategy changes the pending timers,
\* whatever the flag is; its can_reconnect is false and the Simple variant's
\* is true.
C7_NullNeverSchedules ==
    [][/\ \A i \in NullInsts : last'.inst = i => timers' = timers
       /\ can_reconnect("Null") = FALSE
       /\ can_reconnect("Simple") = TRUE]_vars

\* on_connection_closed on the Null instance with the flag true: no timer
C7_Witness ==
    /\ JustCalled("on_connection_closed", "n")
    /\ active
    /\ timers = EmptyBag
    /\ \A i \in SimpleInsts : strategies[i].exists

\* C8 as stated: no operation invoked on a NullReconnectionStrategy (the six
\* hooks and set_active) changes any StrategyState or the shared flag.
C8_NullNeverMutates ==
    [][\A i \in NullInsts :
         last'.inst = i => (strategies' = strategies /\ active' = active)]_vars

\* C8 amended: no operation invoked on a NullReconnectionStrategy changes any
\* StrategyState; the six hooks leave the shared flag unchanged, and
\* set_active(v) on it sets the shared flag to v.
C8_NullMutatesOnlyFlag ==
    [][\A i \in NullInsts :
         last'.inst = i
           => /\ strategies' = strategies
              /\ IF last'.op = "set_active"
                 THEN active' = last'.value
                 ELSE active' = active]_vars

\* set_active(False) on the Null instance has cleared the flag
C8_Witness ==
    /\ JustCalled("set_active", "n")
    /\ last.value = FALSE
    /\ ~active
    /\ \E i \in SimpleInsts :
         strategies[i].exists /\ RLt(Cfg(i).initial_retry_delay, Delay(i))

C10_OpenIsOnlyReset ==
    [][\A i \in SimpleInsts :
         (/\ strategies[i].exists
          /\ \/ RLt(Delay(i)', Delay(i))
             \/ (Attempts(i) > 0 /\ Attempts(i)' = 0))
           => JustCalled("on_connection_open", i)']_vars

\* an open that lowered the delay and cleared a positive counter
C10_Witness ==
    \E i \in SimpleInsts :
        /\ JustCalled("on_connection_open", i)
        /\ RLt(Delay(i), last.pre.current_delay)
        /\ last.pre.attempts_since_last_success > 0
        /\ Attempts(i) = 0

----------------------------------------------------------------------------
C12_BackoffAcrossSessions ==
    \A i \in SimpleInsts :
        (/\ JustCalled("on_connection_closed", i)
         /\ history[i].closures = 1
         /\ history[i].previous # NoDelay)
          => \/ RLt(history[i].previous, history[i].scheduled)
             \/ history[i].scheduled = Cfg(i).max_delay

\* C12 amended: the first closure after an on_connection_open starts again
\* from initial_retry_delay: it schedules min(max_delay, initial_retry_delay
\* * ((d * jitter) + 1) * multiplier), whatever was scheduled in the sessions
\* before; the delay grows only over closures with no on_connection_open in
\* between, where each scheduled delay is greater than the one before or is
\* max_delay.
C12_SessionsRestart ==
    \A i \in SimpleInsts :
        (JustCalled("on_connection_closed", i) /\ last.draw # NoDraw)
          => /\ history[i].closures = 1
                  => history[i].scheduled =
                       RMin(Cfg(i).max_delay,
                            RMul(RMul(Cfg(i).initial_retry_delay,
                                      RAdd(RMul(last.draw, Cfg(i).jitter), One)),
                                 Cfg(i).multiplier))
             /\ history[i].closures > 1
                  => \/ RLt(history[i].previous, history[i].scheduled)
                     \/ history[i].scheduled = Cfg(i).max_delay

\* the closure of a second session schedules what the first session's did
C12_Witness ==
    \E i \in SimpleInsts :
        /\ JustCalled("on_connection_closed", i)
        /\ active
        /\ history[i].closures = 1
        /\ history[i].previous # NoDelay
        /\ history[i].scheduled = history[i].previous
        /\ RLt(history[i].scheduled, Cfg(i).max_delay)
        /\ last.pre.current_delay = Cfg(i).initial_retry_delay

----------------------------------------------------------------------------
\* C13: the shared flag is true at the start; a step changes it only if it
\* is a set_active call, which leaves it at the value passed, on whatever
\* instance; no hook and no __init__ changes it, so a strategy constructed
\* while the flag is false reads is_active false.
C13_FlagChangesOnlyInSetActive ==
    /\ active = TRUE
    /\ [][/\ active' # active => last'.op = "set_active"
          /\ last'.op = "set_active" => is_active' = last'.value
          /\ \A i \in SimpleInsts :
               JustCalled("__init__", i)' => is_active' = active]_vars

\* a strategy has just been constructed while the flag is false
C13_Witness ==
    /\ JustCalled("__init__", "s2")
    /\ strategies["s2"].exists
    /\ ~strategies["s1"].exists
    /\ is_active = FALSE

\* C15: on_connect_attempt, on_connect_attempt_failure,
\* on_transport_connected and on_transport_disconnected on a
\* SimpleReconnectionStrategy leave current_delay, the timers and the flag
\* alone; on_connect_attempt changes the counter of its instance only, the
\* other three change nothing; and a step that adds a timer is an
\* on_connection_closed call.
C15_OtherHooksFrame ==
    [][/\ \A i \in SimpleInsts :
            /\ JustCalled("on_connect_attempt", i)'
                 => /\ timers' = timers
                    /\ active' = active
                    /\ strategies' = [strategies EXCEPT
                           ![i].attempts_since_last_success =
                               strategies'[i].attempts_since_last_success]
            /\ (\/ JustCalled("on_connect_attempt_failure", i)'
                \/ JustCalled("on_transport_connected", i)'
                \/ JustCalled("on_transport_disconnected", i)')
                 => /\ timers' = timers
                    /\ active' = active
                    /\ strategies' = strategies
       /\ (timers' (-) timers) # EmptyBag
            => last'.op = "on_connection_closed"]_vars

\* a failure reported to an instance that had backed off and counted
C15_Witness ==
    \E i \in SimpleInsts :
        /\ JustCalled("on_connect_attempt_failure", i)
        /\ active
        /\ strategies[i] = last.pre
        /\ RLt(Cfg(i).initial_retry_delay, Delay(i))
        /\ Attempts(i) > 0
        /\ timers = EmptyBag

----------------------------------------------------------------------------
\* C14 as stated (the class docstring): with the default configuration and
\* the flag true, a closure sets current_delay to min(max_delay,
\* current_delay * (1 + 0.5 * random())), so it grows by a factor of at most
\* 1.5.
C14_DocstringDelay ==
    [][(/\ JustCalled("on_connection_closed", "s1")'
        /\ active
        /\ Cfg("s1") = DefaultConfig)
         => /\ Delay("s1")' =
                 RMin(<<30, 1>>,
                      RMul(Delay("s1"),
                           RAdd(One, RMul(<<1, 2>>, last'.draw))))
            /\ RLeq(Delay("s1")', RMul(Delay("s1"), <<3, 2>>))]_vars

----------------------------------------------------------------------------
\* number of scheduled closures after which the defaults have reached
\* max_delay whatever the draws: 1 * 2^5 = 32 >= 30
DefaultClosuresToCap == 5

----------------------------------------------------------------------------
C19_StatePerInstance ==
    [][\A i \in SimpleInsts :
         last'.inst # i => strategies'[i] = strategies[i]]_vars

\* a closure changed s1's delay while s2 had backed off and counted
C19_Witness ==
    /\ JustCalled("on_connection_closed", "s1")
    /\ last.draw \in Draws
    /\ Delay("s1") # last.pre.current_delay
    /\ strategies["s2"].exists
    /\ RLt(Cfg("s2").initial_retry_delay, Delay("s2"))
    /\ Attempts("s2") > 0
    /\ Attempts("s1") = 0

----------------------------------------------------------------------------
\* C20 as stated: when on_connection_closed interleaves statement by
\* statement with set_active(False) on another thread, no timer is added
\* while the flag is false, that is, after set_active(False) has completed
\* and before the flag is set again.
C20_NoTimerWhileDisabled ==
    [][(timers' (-) timers) # EmptyBag => active]_vars

\* C20 amended: the test of the flag and the add_timeout call are not
\* atomic.  A call goes past its test only when the flag is true at the
\* test, and every timer added is the one of a call that went past its
\* test, with that call's t and connection; set_active(False) completing
\* between the test and add_timeout does not stop that timer.
C20_TimerOnlyAfterPassedTest ==
    [][/\ (call.pc = "idle" /\ call'.pc # "idle") => active
       /\ (timers' (-) timers) # EmptyBag
            => /\ call.pc = "add_timeout"
               /\ timers' = timers (+) SetToBag({
                      [conn |-> call.conn, delay |-> call.t,
                       callback |-> [obj |-> call.conn,
                                     name |-> "_reconnect"]]})]_vars

\* a timer has just been added although the flag is false
C20_Witness ==
    \E i \in SimpleInsts :
        /\ JustCalled("on_connection_closed", i)
        /\ last.draw \in Draws
        /\ ~active
        /\ call = Idle
        /\ BagIn([conn |-> ConnOf(i), delay |-> Delay(i),
                  callback |-> [obj |-> ConnOf(i), name |-> "_reconnect"]],
                 timers)

====
